---- MODULE Spec2Model ----
(***************************************************************************)
(* ROI statistics extraction (src/src/extract_roi_stats.py).               *)
(*                                                                         *)
(* The module models the script's run (main) as a state machine, and its   *)
(* pure functions (compute_stats_fast, label_name_from_id,                 *)
(* discover_templates, parse_roi_ids) as operators that main's actions     *)
(* use.  Each pure function also has a call specification that applies it *)
(* to every argument of a bounded set.                                     *)
(*                                                                         *)
(* Numbers.  A Python int is a TLA+ integer.  A floating-point number is   *)
(* a record [kind, num, den]: "fin" is the rational num/den in lowest      *)
(* terms, "nan", "inf" and "ninf" are the IEEE specials, "sqrt" is the     *)
(* (irrational) square root of num/den.  Arithmetic is exact: float32 and  *)
(* float64 rounding is not modelled.                                       *)
(*                                                                         *)
(* Text.  ROI names, suffixes and hemisphere codes are TLA+ strings.  File *)
(* names, group names and modality names are sequences of one-character    *)
(* strings, because discovery sorts them and parsing splits them.          *)
(***************************************************************************)
EXTENDS Integers, Sequences, FiniteSets, TLC

VARIABLES
    pc,              \* position of the run, or of the call under check
    args,            \* argparse.Namespace of main, or the arguments of the call
    env,             \* what the run reads: files that exist and their contents
    ret,             \* return value of the function under check
    error,           \* the exception that ended the run, "" when none
    id_to_name,      \* main: label table, id -> name
    template_list,   \* main: discover_templates' result
    lab_data,        \* main: label volume, flattened
    roi_ids_present, \* main: sorted distinct non-zero ids of lab_data
    roi_ids_req,     \* main: parse_roi_ids' result
    idx,             \* main: index in template_list of the current pair
    tpl_data,        \* main: value volume of the current pair, flattened
    stats_map,       \* main: compute_stats_fast's result for the current pair
    plot_queue,      \* main: ROI ids of the current pair still to plot
    files,           \* output directory: path -> content of each file written
    writes           \* every write to the output directory, in order

vars == <<pc, args, env, ret, error, id_to_name, template_list, lab_data,
          roi_ids_present, roi_ids_req, idx, tpl_data, stats_map, plot_queue,
          files, writes>>

---------------------------------------------------------------------------
(* Bounds of the call specifications. *)

\* longest label / value volume compute_stats_fast is called on
MaxVox == 3

\* largest roi_id and largest lr_offset label_name_from_id is called on
MaxRoiId == 5
MaxOffset == 3

\* most files in one template directory discover_templates is called on
MaxFiles == 2

\* longest --roi-ids string parse_roi_ids is called on
MaxArgLen == 4

---------------------------------------------------------------------------
(* Floating-point values. *)

Abs(n) == IF n < 0 THEN -n ELSE n

RECURSIVE GCD(_, _)
GCD(a, b) == IF b = 0 THEN a ELSE GCD(b, a % b)

\* the float num/den (den > 0), in lowest terms
F(n, d) ==
    LET g == GCD(Abs(n), d)
    IN  [kind |-> "fin", num |-> n \div g, den |-> d \div g]

NaN    == [kind |-> "nan",  num |-> 0, den |-> 1]
PosInf == [kind |-> "inf",  num |-> 0, den |-> 1]
NegInf == [kind |-> "ninf", num |-> 0, den |-> 1]

\* a Python int stored in a report row
I(n) == [kind |-> "int", num |-> n, den |-> 1]

isfinite(x) == x.kind \in {"fin", "int", "sqrt"}

\* sign of a float: -1, 0, 1; NaN has none (2)
Sign(x) ==
    CASE x.kind = "nan"  -> 2
      [] x.kind = "inf"  -> 1
      [] x.kind = "ninf" -> -1
      [] OTHER           -> IF x.num > 0 THEN 1 ELSE IF x.num < 0 THEN -1 ELSE 0

\* x <= y on floats that are rational or special; False when either is NaN
FLe(x, y) ==
    CASE x.kind = "nan" \/ y.kind = "nan" -> FALSE
      [] x.kind = "ninf" \/ y.kind = "inf" -> TRUE
      [] x.kind = "inf" \/ y.kind = "ninf" -> FALSE
      [] OTHER -> x.num * y.den <= y.num * x.den

FGe(x, y) == FLe(y, x)

FNeg(x) ==
    CASE x.kind = "inf"  -> NegInf
      [] x.kind = "ninf" -> PosInf
      [] x.kind = "nan"  -> NaN
      [] OTHER           -> F(-x.num, x.den)

FAdd(x, y) ==
    CASE x.kind = "nan" \/ y.kind = "nan" -> NaN
      [] x.kind = "inf"  -> IF y.kind = "ninf" THEN NaN ELSE PosInf
      [] x.kind = "ninf" -> IF y.kind = "inf" THEN NaN ELSE NegInf
      [] y.kind \in {"inf", "ninf"} -> y
      [] OTHER -> F(x.num * y.den + y.num * x.den, x.den * y.den)

FSub(x, y) == FAdd(x, FNeg(y))

FMul(x, y) ==
    CASE x.kind = "nan" \/ y.kind = "nan" -> NaN
      [] x.kind \in {"inf", "ninf"} \/ y.kind \in {"inf", "ninf"} ->
            IF Sign(x) * Sign(y) = 0 THEN NaN
            ELSE IF Sign(x) * Sign(y) > 0 THEN PosInf ELSE NegInf
      [] OTHER -> F(x.num * y.num, x.den * y.den)

\* x / n for an integer count n >= 0, as numpy divides with errstate ignored:
\* 0/0 and nan/0 are nan, a non-zero x over 0 is an infinity
FDivCount(x, n) ==
    CASE x.kind = "nan" -> NaN
      [] n = 0 -> IF Sign(x) = 0 THEN NaN ELSE IF Sign(x) > 0 THEN PosInf ELSE NegInf
      [] x.kind \in {"inf", "ninf"} -> x
      [] OTHER -> F(x.num, x.den * n)

\* np.maximum(x, 0.0): NaN propagates
FMax0(x) == IF x.kind = "nan" THEN NaN ELSE IF FLe(x, F(0, 1)) THEN F(0, 1) ELSE x

\* the integers r >= 0 with r * r = n, at most one
ISqrt(n) == {r \in 0..n : r * r = n}

\* np.sqrt(x) for x >= 0 or NaN: exact when num and den are squares, otherwise
\* the symbolic root
FSqrt(x) ==
    CASE x.kind = "nan" -> NaN
      [] x.kind = "inf" -> PosInf
      [] OTHER ->
            IF ISqrt(x.num) # {} /\ ISqrt(x.den) # {}
            THEN F(CHOOSE r \in ISqrt(x.num) : TRUE, CHOOSE r \in ISqrt(x.den) : TRUE)
            ELSE [kind |-> "sqrt", num |-> x.num, den |-> x.den]

---------------------------------------------------------------------------
(* numpy operations compute_stats_fast uses.  A numpy array is a sequence; *)
(* position p of the array (from 0) is element p + 1 of the sequence.  An  *)
(* array indexed by label value (bincount's result) is a function on       *)
(* 0..size-1.                                                              *)

Min(a, b) == IF a < b THEN a ELSE b
Max(a, b) == IF a > b THEN a ELSE b

Range(s) == {s[i] : i \in DOMAIN s}

\* labels.max() of a non-empty integer array
SeqMax(s) == CHOOSE m \in Range(s) : \A k \in Range(s) : k <= m

\* the empty dict
EmptyMap == [k \in {} |-> NaN]

\* a[mask]: the elements of a whose mask entry is True, in order
RECURSIVE BoolIndex(_, _)
BoolIndex(a, mask) ==
    IF a = <<>> THEN <<>>
    ELSE (IF Head(mask) THEN <<Head(a)>> ELSE <<>>) \o BoolIndex(Tail(a), Tail(mask))

\* bincount's accumulation: weight w[i] is added to the accumulator x[i]
RECURSIVE BincountFrom(_, _, _)
BincountFrom(x, w, acc) ==
    IF x = <<>> THEN acc
    ELSE BincountFrom(Tail(x), Tail(w), [acc EXCEPT ![Head(x)] = FAdd(@, Head(w))])

\* bincount without the grouping: every accumulator receives every weight
bincount_ungrouped(x, w, minlength) ==
    LET size == Max(IF x = <<>> THEN 0 ELSE SeqMax(x) + 1, minlength)
        RECURSIVE Total(_)
        Total(t) == IF t = <<>> THEN F(0, 1) ELSE FAdd(Head(t), Total(Tail(t)))
    IN  [k \in 0..(size - 1) |-> Total(w)]

\* np.bincount(x, weights=w, minlength=minlength) of non-negative integers x
bincount(x, w, minlength) ==
    LET size == Max(IF x = <<>> THEN 0 ELSE SeqMax(x) + 1, minlength)
    IN  BincountFrom(x, w, [k \in 0..(size - 1) |-> F(0, 1)])

\* order with index i inserted after every index whose key is <= keys[i]
RECURSIVE InsertStable(_, _, _)
InsertStable(order, i, keys) ==
    IF order = <<>> THEN <<i>>
    ELSE IF keys[Head(order)] <= keys[i]
         THEN <<Head(order)>> \o InsertStable(Tail(order), i, keys)
         ELSE <<i>> \o order

RECURSIVE ArgsortFrom(_, _, _)
ArgsortFrom(keys, i, order) ==
    IF i > Len(keys) THEN order
    ELSE ArgsortFrom(keys, i + 1, InsertStable(order, i, keys))

\* np.argsort(keys, kind="mergesort"): the stable sorting permutation
argsort(keys) == ArgsortFrom(keys, 1, <<>>)

\* a[order]
Take(a, order) == [k \in 1..Len(order) |-> a[order[k]]]

\* np.r_[0, np.where(np.diff(lab_s) != 0)[0] + 1]: where each run of equal labels begins
run_starts(lab_s) ==
    LET RECURSIVE From(_)
        From(p) == IF p > Len(lab_s) THEN <<>>
                   ELSE (IF lab_s[p] # lab_s[p - 1] THEN <<p>> ELSE <<>>) \o From(p + 1)
    IN  <<1>> \o From(2)

\* smallest / largest element of a non-empty sequence of floats
FMinOf(s) == CHOOSE m \in Range(s) : \A v \in Range(s) : FLe(m, v)
FMaxOf(s) == CHOOSE m \in Range(s) : \A v \in Range(s) : FLe(v, m)

\* the values left in the order of the volume
FSort_skipped(s) == s

\* vals sorted ascending (np.quantile sorts its input)
RECURSIVE FSort(_)
FSort(s) ==
    IF s = <<>> THEN <<>>
    ELSE LET rest == FSort(Tail(s))
             RECURSIVE Ins(_)
             Ins(t) == IF t = <<>> THEN <<Head(s)>>
                       ELSE IF FLe(Head(t), Head(s)) THEN <<Head(t)>> \o Ins(Tail(t))
                       ELSE <<Head(s)>> \o t
         IN  Ins(rest)

\* floor of a non-negative rational
FFloor(x) == x.num \div x.den

\* one quantile of sorted values, method "linear": the value at the virtual
\* position (n - 1) * q, interpolated between the two nearest ranks
quantile_linear(sorted, q) ==
    LET n     == Len(sorted)
        h     == FMul(F(n - 1, 1), q)
        lo    == FFloor(h)
        hi    == Min(lo + 1, n - 1)
        gamma == FSub(h, F(lo, 1))
    IN  FAdd(sorted[lo + 1], FMul(gamma, FSub(sorted[hi + 1], sorted[lo + 1])))

\* _quantiles(vals, qs): the quantiles of vals in the order of qs
_quantiles(vals, qs) == [k \in 1..Len(qs) |-> quantile_linear(FSort(vals), qs[k])]

---------------------------------------------------------------------------
(* compute_stats_fast *)

\* the quantile levels 0.05, 0.25, 0.50, 0.75, 0.95
qs == <<F(5, 100), F(25, 100), F(50, 100), F(75, 100), F(95, 100)>>

\* the mask with values > 0 in place of values >= 0
validity_mask_strict(values, include_negative) ==
    [i \in 1..Len(values) |->
        /\ isfinite(values[i])
        /\ (include_negative \/ (FGe(values[i], F(0, 1)) /\ values[i] # F(0, 1)))]

\* mask = np.isfinite(values); if not include_negative: mask &= (values >= 0)
validity_mask(values, include_negative) ==
    [i \in 1..Len(values) |->
        /\ isfinite(values[i])
        /\ (include_negative \/ FGe(values[i], F(0, 1)))]

\* the square of a standard deviation s (exact root or symbolic root)
StdSquared(s) == IF s.kind = "sqrt" THEN F(s.num, s.den) ELSE FMul(s, s)

\* (v >= m - s) & (v <= m + s) for s >= 0, decided exactly as (v - m)^2 <= s^2
within_1sd(v, m, s) ==
    /\ m.kind = "fin" /\ s.kind \in {"fin", "sqrt"}
    /\ FLe(FMul(FSub(v, m), FSub(v, m)), StdSquared(s))

\* 100.0 * float(np.mean(flags)) for a non-empty boolean array
pct_true(flags) ==
    F(100 * Cardinality({i \in DOMAIN flags : flags[i]}), Len(flags))

\* the robust statistics of one run of equal labels (the body of the loop over
\* lab_unique, starts, ends), given the means and stds arrays
roi_robust(vals_roi, rid, means, stds) ==
    LET q    == _quantiles(vals_roi, qs)
        iqr  == FSub(q[4], q[2])
        m    == IF rid \in DOMAIN means THEN means[rid] ELSE NaN
        s    == IF rid \in DOMAIN stds THEN stds[rid] ELSE NaN
        pct1 == IF isfinite(m) /\ isfinite(s)
                THEN pct_true([i \in 1..Len(vals_roi) |-> within_1sd(vals_roi[i], m, s)])
                ELSE NaN
        loww  == FSub(q[2], FMul(F(3, 2), iqr))
        highw == FAdd(q[4], FMul(F(3, 2), iqr))
        pctw == IF isfinite(iqr)
                THEN pct_true([i \in 1..Len(vals_roi) |->
                                  FGe(vals_roi[i], loww) /\ FLe(vals_roi[i], highw)])
                ELSE NaN
    IN  [p05 |-> q[1], q1 |-> q[2], median |-> q[3], q3 |-> q[4], p95 |-> q[5],
         iqr |-> iqr, pct_within_1sd |-> pct1, pct_within_whiskers |-> pctw]

\* d.get(key, default) of a dict d
Get(d, key, default) == IF key \in DOMAIN d THEN d[key] ELSE default

\* the dict a loop "for k, v in zip(keys, vals): d[k] = v" builds: a later
\* assignment to a key overwrites an earlier one
DictOfZip(keys, vals) ==
    [k \in Range(keys) |->
        vals[CHOOSE i \in DOMAIN keys :
                /\ keys[i] = k
                /\ \A j \in DOMAIN keys : keys[j] = k => j <= i]]

\* label_data is an array of non-negative int32 and value_data an array of
\* float32, as main passes them (lines 428 and 440): the two astype conversions
\* of lines 96-97 leave such arrays as they are
compute_stats_fast(label_data, value_data, include_negative, compute_minmax) ==
    LET mask   == validity_mask(value_data, include_negative)
        labels == BoolIndex(label_data, mask)
        values == BoolIndex(value_data, mask)
    IN  IF Len(labels) = 0 THEN EmptyMap
        ELSE
        LET max_label == SeqMax(labels)
            ones   == [i \in 1..Len(labels) |-> F(1, 1)]
            cnt    == bincount(labels, ones, max_label + 1)
            counts == [k \in DOMAIN cnt |-> cnt[k].num]
            sums   == bincount(labels, values, max_label + 1)
            sums2  == bincount(labels, [i \in 1..Len(values) |-> FMul(values[i], values[i])],
                               max_label + 1)
            means  == [k \in DOMAIN sums |-> FDivCount(sums[k], counts[k])]
            vars_  == [k \in DOMAIN sums |->
                          FMax0(FSub(FDivCount(sums2[k], counts[k]), FMul(means[k], means[k])))]
            stds   == [k \in DOMAIN sums |-> FSqrt(vars_[k])]
            order  == argsort(labels)
            lab_s  == Take(labels, order)
            val_s  == Take(values, order)
            starts == run_starts(lab_s)
            lab_unique == Take(lab_s, starts)
            ends   == Tail(starts) \o <<Len(lab_s) + 1>>
            run(k) == SubSeq(val_s, starts[k], ends[k] - 1)
            min_map == IF compute_minmax
                       THEN DictOfZip(lab_unique, [k \in DOMAIN starts |-> FMinOf(run(k))])
                       ELSE EmptyMap
            max_map == IF compute_minmax
                       THEN DictOfZip(lab_unique, [k \in DOMAIN starts |-> FMaxOf(run(k))])
                       ELSE EmptyMap
            robust == DictOfZip(lab_unique,
                          [k \in DOMAIN starts |-> roi_robust(run(k), lab_unique[k], means, stds)])
            nan_robust == [p05 |-> NaN, q1 |-> NaN, median |-> NaN, q3 |-> NaN, p95 |-> NaN,
                           iqr |-> NaN, pct_within_1sd |-> NaN, pct_within_whiskers |-> NaN]
            n_of(rid) == IF rid \in DOMAIN counts THEN counts[rid] ELSE 0
            row(rid) ==
                [n_voxels |-> n_of(rid), mean |-> means[rid], std |-> stds[rid]]
                @@ Get(robust, rid, nan_robust)
                @@ (IF compute_minmax
                    THEN [min |-> Get(min_map, rid, NaN), max |-> Get(max_map, rid, NaN)]
                    ELSE EmptyMap)
        IN  [rid \in {r \in Range(labels) : n_of(r) > 0} |-> row(rid)]

---------------------------------------------------------------------------
(* label_name_from_id and load_label_table *)

\* f"ID_{base_id}"
id_name(base_id) == "ID_" \o ToString(base_id)

\* the rule with roi_id > lr_offset in place of roi_id >= lr_offset
label_name_from_id_gt(roi_id, table, lr_offset, right_suffix, left_suffix) ==
    IF roi_id = 0 THEN <<0, "", "Background">>
    ELSE IF lr_offset > 0 /\ roi_id > lr_offset
         THEN <<roi_id - lr_offset, "L",
                Get(table, roi_id - lr_offset, id_name(roi_id - lr_offset)) \o left_suffix>>
         ELSE <<roi_id, "R", Get(table, roi_id, id_name(roi_id)) \o right_suffix>>

label_name_from_id(roi_id, table, lr_offset, right_suffix, left_suffix) ==
    IF roi_id = 0 THEN <<0, "", "Background">>
    ELSE IF lr_offset > 0 /\ roi_id >= lr_offset
         THEN LET base_id == roi_id - lr_offset
              IN  <<base_id, "L", Get(table, base_id, id_name(base_id)) \o left_suffix>>
         ELSE LET base_id == roi_id
              IN  <<base_id, "R", Get(table, base_id, id_name(base_id)) \o right_suffix>>

\* the loop of load_label_table over the rows of the table: a row whose id does
\* not parse (id = None) or whose stripped name is empty is skipped, a later row
\* overwrites an earlier row of the same id
RECURSIVE label_rows(_, _)
label_rows(rows, mapping) ==
    IF rows = <<>> THEN mapping
    ELSE LET row == Head(rows)
         IN  IF row.id.some /\ row.name # ""
             THEN label_rows(Tail(rows),
                             [k \in DOMAIN mapping \cup {row.id.val} |->
                                 IF k = row.id.val THEN row.name ELSE mapping[k]])
             ELSE label_rows(Tail(rows), mapping)

\* load_label_table(csv_path): [raised, value]; a table without the columns
\* id and name raises ValueError
load_label_table(csv) ==
    IF ~csv.has_columns THEN [raised |-> TRUE, value |-> EmptyMap]
    ELSE [raised |-> FALSE, value |-> label_rows(csv.rows, EmptyMap)]

---------------------------------------------------------------------------
(* discover_templates.  A name is a sequence of characters; Python orders   *)
(* strings, and pathlib orders paths of one directory, by code point.      *)

\* ord(c) of the characters names are written in
Ord ==
    [c \in {"0", "1", "A", "B", "T", "U", "_", "a", "e", "g", "i", "l", "m", "n",
            "p", "t", "z", "."} |->
        CASE c = "." -> 46 [] c = "0" -> 48 [] c = "1" -> 49 [] c = "A" -> 65
          [] c = "B" -> 66 [] c = "T" -> 84 [] c = "U" -> 85 [] c = "_" -> 95
          [] c = "a" -> 97 [] c = "e" -> 101 [] c = "g" -> 103 [] c = "i" -> 105
          [] c = "l" -> 108 [] c = "m" -> 109 [] c = "n" -> 110 [] c = "p" -> 112
          [] c = "t" -> 116 [] c = "z" -> 122]

\* a < b for Python strings
RECURSIVE StrLt(_, _)
StrLt(a, b) ==
    IF b = <<>> THEN FALSE
    ELSE IF a = <<>> THEN TRUE
    ELSE IF Head(a) = Head(b) THEN StrLt(Tail(a), Tail(b))
    ELSE Ord[Head(a)] < Ord[Head(b)]

\* sorted(names) of a set of names
RECURSIVE sorted(_)
sorted(names) ==
    IF names = {} THEN <<>>
    ELSE LET first == CHOOSE a \in names : \A b \in names \ {a} : StrLt(a, b)
         IN  <<first>> \o sorted(names \ {first})

\* "_template.nii.gz"
TemplateSuffix ==
    <<"_", "t", "e", "m", "p", "l", "a", "t", "e", ".", "n", "i", "i", ".", "g", "z">>

\* fnmatch of name against "*_template.nii.gz"
matches_template_glob(name) ==
    /\ Len(name) >= Len(TemplateSuffix)
    /\ SubSeq(name, Len(name) - Len(TemplateSuffix) + 1, Len(name)) = TemplateSuffix

\* f"{group}_{m}_template.nii.gz"
expected_name(group, m) == group \o <<"_">> \o m \o TemplateSuffix

\* the selection without the preference for the expected file
select_template_first_hit(names, group, m) ==
    LET hits == sorted({f \in names : matches_template_glob(f)})
    IN  IF hits # <<>> THEN <<hits[1]>> ELSE <<>>

\* the selection in one template directory holding `names`: the expected file
\* if it exists, else the first hit of the glob in sorted order, else nothing
select_template(names, group, m) ==
    IF expected_name(group, m) \in names THEN <<expected_name(group, m)>>
    ELSE LET hits == sorted({f \in names : matches_template_glob(f)})
         IN  IF hits # <<>> THEN <<hits[1]>> ELSE <<>>

\* the loop over sorted group directories of one modality.  base maps each
\* entry of To_Template to [is_dir, has_template, names]
RECURSIVE discover_groups(_, _, _)
discover_groups(base, groups, m) ==
    IF groups = <<>> THEN <<>>
    ELSE LET group == Head(groups)
             sel   == IF base[group].has_template
                      THEN select_template(base[group].names, group, m)
                      ELSE <<>>
         IN  (IF sel # <<>>
              THEN <<[group |-> group, modality |-> m, name |-> sel[1]]>>
              ELSE <<>>)
             \o discover_groups(base, Tail(groups), m)

\* discover_templates(out_root, modalities).  out_root maps each modality that
\* has a To_Template directory to that directory's entries
RECURSIVE discover_templates(_, _)
discover_templates(out_root, modalities) ==
    IF modalities = <<>> THEN <<>>
    ELSE LET m == Head(modalities)
         IN  (IF m \notin DOMAIN out_root THEN <<>>
              ELSE discover_groups(out_root[m],
                                   sorted({g \in DOMAIN out_root[m] : out_root[m][g].is_dir}),
                                   m))
             \o discover_templates(out_root, Tail(modalities))

---------------------------------------------------------------------------
(* parse_roi_ids.  The argument is a sequence of characters. *)

\* Optional[...]: None, or a value
None == [some |-> FALSE, val |-> <<>>]
Some(v) == [some |-> TRUE, val |-> v]

Digits == {"0", "1", "2", "3", "4", "5", "6", "7", "8", "9"}

DigitVal(c) ==
    CASE c = "0" -> 0 [] c = "1" -> 1 [] c = "2" -> 2 [] c = "3" -> 3 [] c = "4" -> 4
      [] c = "5" -> 5 [] c = "6" -> 6 [] c = "7" -> 7 [] c = "8" -> 8 [] c = "9" -> 9

\* str.strip() for the whitespace character " "
RECURSIVE lstrip(_)
lstrip(t) == IF t # <<>> /\ Head(t) = " " THEN lstrip(Tail(t)) ELSE t

RECURSIVE rstrip(_)
rstrip(t) == IF t # <<>> /\ t[Len(t)] = " " THEN rstrip(SubSeq(t, 1, Len(t) - 1)) ELSE t

strip(t) == rstrip(lstrip(t))

\* str.lower()
lower(t) ==
    [i \in 1..Len(t) |-> CASE t[i] = "A" -> "a" [] t[i] = "L" -> "l" [] OTHER -> t[i]]

\* str.split(","): the fields between commas, empty fields kept
RECURSIVE split_comma(_, _)
split_comma(t, field) ==
    IF t = <<>> THEN <<field>>
    ELSE IF Head(t) = "," THEN <<field>> \o split_comma(Tail(t), <<>>)
    ELSE split_comma(Tail(t), Append(field, Head(t)))

\* the value of a non-empty run of digits, most significant first
RECURSIVE digits_value(_, _)
digits_value(t, acc) ==
    IF t = <<>> THEN acc ELSE digits_value(Tail(t), 10 * acc + DigitVal(Head(t)))

\* int(tok) of a stripped token: an optional sign and one or more digits;
\* [raised, value], anything else raises ValueError
int_of(tok) ==
    LET signed == tok # <<>> /\ Head(tok) \in {"+", "-"}
        body   == IF signed THEN Tail(tok) ELSE tok
    IN  IF body = <<>> \/ \E i \in DOMAIN body : body[i] \notin Digits
        THEN [raised |-> TRUE, value |-> 0]
        ELSE [raised |-> FALSE,
              value  |-> IF signed /\ Head(tok) = "-" THEN -digits_value(body, 0)
                         ELSE digits_value(body, 0)]

\* the loop of parse_roi_ids over the tokens: empty tokens are skipped
RECURSIVE parse_tokens(_, _)
parse_tokens(toks, out) ==
    IF toks = <<>> THEN [raised |-> FALSE, value |-> Some(out)]
    ELSE LET tok == strip(Head(toks))
         IN  IF tok = <<>> THEN parse_tokens(Tail(toks), out)
             ELSE IF int_of(tok).raised THEN [raised |-> TRUE, value |-> None]
             ELSE parse_tokens(Tail(toks), Append(out, int_of(tok).value))

\* parse_roi_ids(arg): [raised, value] with value None, Some(<<>>) for "all",
\* or Some(list)
parse_roi_ids(arg) ==
    LET s == lower(strip(arg))
    IN  IF s = <<>> THEN [raised |-> FALSE, value |-> None]
        ELSE IF s = <<"a", "l", "l">> THEN [raised |-> FALSE, value |-> Some(<<>>)]
        ELSE parse_tokens(split_comma(s, <<>>), <<>>)

---------------------------------------------------------------------------
(* The report table of one (group, modality) pair. *)

\* the integer nearest to the rational n/d (d > 0), ties to the even one
round_half_even(n, d) ==
    LET k   == n \div d
        rem == n - k * d
    IN  IF 2 * rem < d THEN k
        ELSE IF 2 * rem > d THEN k + 1
        ELSE IF k % 2 = 0 THEN k ELSE k + 1

\* DataFrame.round(2) of one numeric cell: an int, NaN and the infinities are
\* unchanged, a float goes to the nearest hundredth
round2(x) ==
    CASE x.kind = "fin"  -> F(round_half_even(100 * x.num, x.den), 100)
      [] x.kind = "sqrt" ->
            \* the r with r - 1/2 <= 100 * sqrt(num/den) < r + 1/2
            F(CHOOSE r \in 0..(100 * (x.num \div x.den + 2)) :
                  /\ (r = 0 \/ (2 * r - 1) * (2 * r - 1) * x.den <= 40000 * x.num)
                  /\ 40000 * x.num < (2 * r + 1) * (2 * r + 1) * x.den,
              100)
      [] OTHER -> x

NumericColumns ==
    {"ROI_id", "ROI_base_id", "n_voxels", "mean", "std", "min", "max", "p05", "q1",
     "median", "q3", "p95", "iqr", "pct_within_1sd", "pct_within_whiskers"}

\* the statistics columns of a report row
StatColumns == NumericColumns \ {"ROI_id", "ROI_base_id"}

\* the row with 0.0 in place of NaN for the mean of an id without statistics
report_row_zero_fill(pair, roi_id, stats, table, a) ==
    LET resolved == label_name_from_id(roi_id, table, a.lr_offset,
                                       a.right_suffix, a.left_suffix)
        s        == Get(stats, roi_id, EmptyMap)
        truthy   == DOMAIN s # {}
        fld(key) == IF truthy THEN Get(s, key, NaN) ELSE NaN
    IN  [Group |-> pair.group, Modality |-> pair.modality, TemplateFile |-> pair.name,
         ROI_id |-> I(roi_id), ROI_base_id |-> I(resolved[1]),
         Hemisphere |-> resolved[2], ROI_name |-> resolved[3],
         n_voxels |-> I(Get(s, "n_voxels", 0)),
         mean |-> Get(s, "mean", F(0, 1)), std |-> fld("std"),
         min |-> IF truthy /\ ~a.no_minmax THEN Get(s, "min", NaN) ELSE NaN,
         max |-> IF truthy /\ ~a.no_minmax THEN Get(s, "max", NaN) ELSE NaN,
         p05 |-> fld("p05"), q1 |-> fld("q1"), median |-> fld("median"),
         q3 |-> fld("q3"), p95 |-> fld("p95"), iqr |-> fld("iqr"),
         pct_within_1sd |-> fld("pct_within_1sd"),
         pct_within_whiskers |-> fld("pct_within_whiskers")]

\* the dict appended to rows for one roi_id
report_row(pair, roi_id, stats, table, a) ==
    LET resolved == label_name_from_id(roi_id, table, a.lr_offset,
                                       a.right_suffix, a.left_suffix)
        s        == Get(stats, roi_id, EmptyMap)
        truthy   == DOMAIN s # {}
        fld(key) == IF truthy THEN Get(s, key, NaN) ELSE NaN
    IN  [Group |-> pair.group, Modality |-> pair.modality, TemplateFile |-> pair.name,
         ROI_id |-> I(roi_id), ROI_base_id |-> I(resolved[1]),
         Hemisphere |-> resolved[2], ROI_name |-> resolved[3],
         n_voxels |-> I(Get(s, "n_voxels", 0)),
         mean |-> fld("mean"), std |-> fld("std"),
         min |-> IF truthy /\ ~a.no_minmax THEN Get(s, "min", NaN) ELSE NaN,
         max |-> IF truthy /\ ~a.no_minmax THEN Get(s, "max", NaN) ELSE NaN,
         p05 |-> fld("p05"), q1 |-> fld("q1"), median |-> fld("median"),
         q3 |-> fld("q3"), p95 |-> fld("p95"), iqr |-> fld("iqr"),
         pct_within_1sd |-> fld("pct_within_1sd"),
         pct_within_whiskers |-> fld("pct_within_whiskers")]

\* df[num_cols] = df[num_cols].round(2)
round_row(row) ==
    [c \in DOMAIN row |-> IF c \in NumericColumns THEN round2(row[c]) ELSE row[c]]

\* the DataFrame main writes: one rounded row per id of roi_ids_present, in order
report_table(pair, ids, stats, table, a) ==
    [k \in 1..Len(ids) |-> round_row(report_row(pair, ids[k], stats, table, a))]

\* np.unique(lab_data) without 0, as a list: the distinct ids in ascending order
RECURSIVE sorted_ints(_)
sorted_ints(ids) ==
    IF ids = {} THEN <<>>
    ELSE LET first == CHOOSE a \in ids : \A b \in ids : a <= b
         IN  <<first>> \o sorted_ints(ids \ {first})

\* the ids without the filter != 0
present_ids_unfiltered(data) == sorted_ints(Range(data))

present_ids(data) == sorted_ints(Range(data) \ {0})

\* out_path of write_group_modality_table
table_path(pair, as_csv) ==
    [kind |-> "table", group |-> pair.group, modality |-> pair.modality,
     ext |-> IF as_csv THEN "csv" ELSE "tsv"]

\* out_png of the per-ROI plot
png_path(pair, roi_id) ==
    [kind |-> "png", group |-> pair.group, modality |-> pair.modality, roi_id |-> roi_id]

\* the file system after content is written to path
put(fs, path, content) ==
    [q \in DOMAIN fs \cup {path} |-> IF q = path THEN content ELSE fs[q]]

\* roi_ids_to_plot without the cut of line 503
ids_to_plot_uncapped(req, present, png_max) == IF req = <<>> THEN present ELSE req

\* roi_ids_to_plot of one pair (lines 497-503), for a request that is not None
ids_to_plot(req, present, png_max) ==
    LET chosen == IF req = <<>> THEN present ELSE req
    IN  IF png_max > 0 THEN SubSeq(chosen, 1, Min(png_max, Len(chosen))) ELSE chosen

\* vals of one ROI in the plot loop: tpl_data[lab_data == roi_id], filtered
roi_values(labels, values, roi_id, include_negative) ==
    LET at_roi == BoolIndex(values, [i \in 1..Len(labels) |-> labels[i] = roi_id])
    IN  BoolIndex(at_roi, validity_mask(at_roi, include_negative))

\* the default of stats_map.get in the plot loop: n, np.mean and np.std of vals
fallback_stats(vals) ==
    LET n    == Len(vals)
        sum  == bincount([i \in 1..n |-> 0], vals, 1)[0]
        sum2 == bincount([i \in 1..n |-> 0], [i \in 1..n |-> FMul(vals[i], vals[i])], 1)[0]
        mean == FDivCount(sum, n)
    IN  [n_voxels |-> n, mean |-> mean,
         std |-> FSqrt(FMax0(FSub(FDivCount(sum2, n), FMul(mean, mean))))]

---------------------------------------------------------------------------
(* Values shared by the specifications. *)

\* main's state before main runs: what a call specification leaves untouched
MainIdle ==
    /\ env = EmptyMap
    /\ error = ""
    /\ id_to_name = EmptyMap
    /\ template_list = <<>>
    /\ lab_data = <<>>
    /\ roi_ids_present = <<>>
    /\ roi_ids_req = None
    /\ idx = 0
    /\ tpl_data = <<>>
    /\ stats_map = EmptyMap
    /\ plot_queue = <<>>
    /\ files = EmptyMap
    /\ writes = <<>>

main_vars == <<env, error, id_to_name, template_list, lab_data, roi_ids_present,
               roi_ids_req, idx, tpl_data, stats_map, plot_queue, files, writes>>

---------------------------------------------------------------------------
(* Calls of compute_stats_fast on every pair of volumes of at most MaxVox  *)
(* voxels.  Label ids are sparse (2 is never used, so an accumulator slot  *)
(* below the maximum id stays empty); values cover NaN, an infinity, a     *)
(* negative number, zero and a positive number.  min/max are computed, as  *)
(* main does by default; the calls of SpecQuantiles cover both settings.   *)

LabelIds == {0, 1, 3}

InputValues == {NaN, PosInf, F(-1, 1), F(0, 1), F(2, 1)}

StatsArgs ==
    UNION {[label_data : [1..n -> LabelIds], value_data : [1..n -> InputValues],
            include_negative : BOOLEAN, compute_minmax : {TRUE}] : n \in 0..MaxVox}

InitStats ==
    /\ pc = "call"
    /\ args \in StatsArgs
    /\ ret = EmptyMap
    /\ MainIdle

CallComputeStats ==
    /\ pc = "call"
    /\ ret' = compute_stats_fast(args.label_data, args.value_data,
                                 args.include_negative, args.compute_minmax)
    /\ pc' = "return"
    /\ UNCHANGED <<args, main_vars>>

NextStats == CallComputeStats

SpecStats == InitStats /\ [][NextStats]_vars

---------------------------------------------------------------------------
(* Calls of label_name_from_id on every roi_id of -1..MaxRoiId and every   *)
(* lr_offset of -1..MaxOffset, with tables that hold or lack the base id.  *)

NameTables == { EmptyMap, (1 :> "Thalamus"), (0 :> "Root" @@ 2 :> "Cortex") }

NameArgs ==
    [ roi_id : -1..MaxRoiId, table : NameTables, lr_offset : -1..MaxOffset,
      right_suffix : {"_R", ""}, left_suffix : {"_L"} ]

InitName ==
    /\ pc = "call"
    /\ args \in NameArgs
    /\ ret = EmptyMap
    /\ MainIdle

CallLabelName ==
    /\ pc = "call"
    /\ ret' = label_name_from_id(args.roi_id, args.table, args.lr_offset,
                                 args.right_suffix, args.left_suffix)
    /\ pc' = "return"
    /\ UNCHANGED <<args, main_vars>>

NextName == CallLabelName

SpecName == InitName /\ [][NextName]_vars

---------------------------------------------------------------------------
(* Calls of discover_templates on every tree whose template directories    *)
(* hold at most MaxFiles of: the expected file, a glob match that sorts    *)
(* before it, a glob match that sorts after it, a file the glob rejects.   *)

T1 == <<"T", "1">>
U1 == <<"U", "1">>
GroupA == <<"A">>
GroupB == <<"B">>

\* a group directory with a template subdirectory holding names
TemplateDir(names) == [is_dir |-> TRUE, has_template |-> TRUE, names |-> names]

\* f"{group}_{m}_template.nii": the glob does not match it
unzipped_name(group, m) ==
    SubSeq(expected_name(group, m), 1, Len(expected_name(group, m)) - 3)

CandidateNames(group, m) ==
    { expected_name(group, m), <<"0">> \o TemplateSuffix, <<"a">> \o TemplateSuffix,
      unzipped_name(group, m) }

\* what the entry `group` of To_Template may be: a plain file, a directory
\* without template subdirectory, a directory with one
EntryOptions(group, m) ==
    { [is_dir |-> FALSE, has_template |-> FALSE, names |-> {}],
      [is_dir |-> TRUE,  has_template |-> FALSE, names |-> {}] }
    \cup { TemplateDir(names) :
             names \in {ns \in SUBSET CandidateNames(group, m) : Cardinality(ns) <= MaxFiles} }

\* the To_Template directories of modality m over the entries `groups`
BaseDirs(m, groups) ==
    UNION { { base \in [gs -> UNION {EntryOptions(g, m) : g \in gs}] :
                \A g \in gs : base[g] \in EntryOptions(g, m) } : gs \in SUBSET groups }

DiscoverTrees ==
    { (IF b1.some THEN T1 :> b1.val ELSE EmptyMap) @@ (IF b2.some THEN U1 :> b2.val ELSE EmptyMap) :
        b1 \in {None} \cup {Some(b) : b \in BaseDirs(T1, {GroupA, GroupB})},
        b2 \in {None} \cup {Some(b) : b \in BaseDirs(U1, {GroupA})} }

DiscoverArgs ==
    [ out_root : DiscoverTrees,
      modalities : { <<>>, <<T1>>, <<T1, U1>>, <<U1, T1>>, <<T1, T1>> } ]

InitDiscover ==
    /\ pc = "call"
    /\ args \in DiscoverArgs
    /\ ret = <<>>
    /\ MainIdle

CallDiscover ==
    /\ pc = "call"
    /\ ret' = discover_templates(args.out_root, args.modalities)
    /\ pc' = "return"
    /\ UNCHANGED <<args, main_vars>>

NextDiscover == CallDiscover

SpecDiscover == InitDiscover /\ [][NextDiscover]_vars

---------------------------------------------------------------------------
(* Calls of parse_roi_ids on every string of at most MaxArgLen characters   *)
(* over letters of "all" in both cases, the space, the comma and two digits. *)

RoiIdsAlphabet == {"a", "A", "l", " ", ",", "1", "3"}

ParseArgs == UNION {[arg : [1..n -> RoiIdsAlphabet]] : n \in 0..MaxArgLen}

InitParse ==
    /\ pc = "call"
    /\ args \in ParseArgs
    /\ ret = EmptyMap
    /\ MainIdle

CallParseRoiIds ==
    /\ pc = "call"
    /\ ret' = parse_roi_ids(args.arg)
    /\ pc' = "return"
    /\ UNCHANGED <<args, main_vars>>

NextParse == CallParseRoiIds

SpecParse == InitParse /\ [][NextParse]_vars

---------------------------------------------------------------------------
(* main.  The run reads env: whether the label volume and the label table  *)
(* exist, the table, the tree under OUT_ROOT that discovery walks, and the *)
(* label volume.  The value volume of a pair is read when the pair is      *)
(* processed.                                                              *)

\* OUT_ROOT trees: nothing to discover; one group of one modality; a group per
\* modality, one of them with a wildcard match only
MainTrees ==
    { EmptyMap,
      (T1 :> (GroupA :> TemplateDir({expected_name(GroupA, T1)}))),
      (T1 :> (GroupA :> TemplateDir({expected_name(GroupA, T1)})))
      @@ (U1 :> (GroupB :> TemplateDir({<<"a">> \o TemplateSuffix}))) }

\* label tables: a table with a row whose id does not parse and a row with an
\* empty name; a table without the required columns
MainTables ==
    { [has_columns |-> TRUE,
       rows |-> << [id |-> Some(1), name |-> "Thalamus"],
                   [id |-> None,    name |-> "Cortex"],
                   [id |-> Some(3), name |-> ""] >>],
      [has_columns |-> FALSE, rows |-> <<>>] }

LabelShape == <<3, 1, 1>>

\* label volumes: ids out of order with background; the id equal to the
\* hemisphere offset; background only
MainLabelData == { <<3, 0, 1>>, <<2, 1, 1>>, <<0, 0, 0>> }

\* value volumes: two of the label volume's shape (one with NaN and a negative
\* value), one of another shape with as many voxels
ValueVolumes ==
    { [shape |-> <<3, 1, 1>>, data |-> <<F(2, 1), NaN, F(-1, 1)>>],
      [shape |-> <<3, 1, 1>>, data |-> <<F(1, 3), F(2, 1), F(0, 1)>>],
      [shape |-> <<1, 3, 1>>, data |-> <<F(1, 1), F(1, 1), F(1, 1)>>] }

\* the plot options: no plots; plots without ids; all ids, uncapped and capped;
\* a list with background, uncapped and capped; separators only; not a number
PlotOptions ==
    { [per_roi_png |-> FALSE, roi_ids |-> <<>>, roi_png_max |-> 0],
      [per_roi_png |-> TRUE,  roi_ids |-> <<>>, roi_png_max |-> 0],
      [per_roi_png |-> TRUE,  roi_ids |-> <<"A", "l", "l">>, roi_png_max |-> 0],
      [per_roi_png |-> TRUE,  roi_ids |-> <<"a", "l", "l">>, roi_png_max |-> 1],
      [per_roi_png |-> TRUE,  roi_ids |-> <<"3", ",", " ", "1", ",", "0">>, roi_png_max |-> 0],
      [per_roi_png |-> TRUE,  roi_ids |-> <<"0", ",", "1", ",", "3">>, roi_png_max |-> 2],
      [per_roi_png |-> TRUE,  roi_ids |-> <<",">>, roi_png_max |-> 0],
      [per_roi_png |-> FALSE, roi_ids |-> <<"1", ",", "x">>, roi_png_max |-> 0] }

MainArgs ==
    { base @@ plot :
        base \in [ modalities : {<<U1>>, <<T1, U1>>, <<T1, T1>>},
                   csv : {FALSE},
                   lr_offset : {0, 2},
                   right_suffix : {"_R"},
                   left_suffix : {"_L"},
                   include_negative : BOOLEAN,
                   no_minmax : BOOLEAN ],
        plot \in PlotOptions }

MainEnvs ==
    [ labels_exists : BOOLEAN,
      table : {None} \cup {Some(t) : t \in MainTables},
      out_root : MainTrees,
      labels : [shape : {LabelShape}, data : MainLabelData] ]

Init ==
    /\ pc = "start"
    /\ args \in MainArgs
    /\ env \in MainEnvs
    /\ ret = EmptyMap
    /\ error = ""
    /\ id_to_name = EmptyMap
    /\ template_list = <<>>
    /\ lab_data = <<>>
    /\ roi_ids_present = <<>>
    /\ roi_ids_req = None
    /\ idx = 0
    /\ tpl_data = <<>>
    /\ stats_map = EmptyMap
    /\ plot_queue = <<>>
    /\ files = EmptyMap
    /\ writes = <<>>

\* the run ends with an uncaught exception
Raise(exc) ==
    /\ error' = exc
    /\ pc' = "raised"

\* id_to_name after lines 412-414: the table if it exists, else empty
loaded_table(e) ==
    IF e.table.some THEN load_label_table(e.table.val)
    ELSE [raised |-> FALSE, value |-> EmptyMap]

\* the start without the check of lines 409-410
StartLabelsMissingUnchecked ==
    /\ pc = "start"
    /\ ~env.labels_exists
    /\ ~loaded_table(env).raised
    /\ id_to_name' = loaded_table(env).value
    /\ template_list' = discover_templates(env.out_root, args.modalities)
    /\ pc' = IF discover_templates(env.out_root, args.modalities) = <<>>
             THEN "done" ELSE "load_labels"
    /\ UNCHANGED <<args, env, ret, error, lab_data, roi_ids_present,
                   roi_ids_req, idx, tpl_data, stats_map, plot_queue, files, writes>>

\* lines 409-410: the label volume does not exist
StartLabelsMissing ==
    /\ pc = "start"
    /\ ~env.labels_exists
    /\ Raise("FileNotFoundError")
    /\ UNCHANGED <<args, env, ret, id_to_name, template_list, lab_data, roi_ids_present,
                   roi_ids_req, idx, tpl_data, stats_map, plot_queue, files, writes>>

\* lines 412-414: the label table exists and load_label_table raises
StartBadTable ==
    /\ pc = "start"
    /\ env.labels_exists
    /\ loaded_table(env).raised
    /\ Raise("ValueError")
    /\ UNCHANGED <<args, env, ret, id_to_name, template_list, lab_data, roi_ids_present,
                   roi_ids_req, idx, tpl_data, stats_map, plot_queue, files, writes>>

\* the discovery miss raising in place of returning
StartNoTemplatesRaises ==
    /\ pc = "start"
    /\ env.labels_exists
    /\ ~loaded_table(env).raised
    /\ discover_templates(env.out_root, args.modalities) = <<>>
    /\ id_to_name' = loaded_table(env).value
    /\ Raise("FileNotFoundError")
    /\ UNCHANGED <<args, env, ret, template_list, lab_data, roi_ids_present,
                   roi_ids_req, idx, tpl_data, stats_map, plot_queue, files, writes>>

\* lines 412-421: no template is discovered, main returns
StartNoTemplates ==
    /\ pc = "start"
    /\ env.labels_exists
    /\ ~loaded_table(env).raised
    /\ discover_templates(env.out_root, args.modalities) = <<>>
    /\ id_to_name' = loaded_table(env).value
    /\ pc' = "done"
    /\ UNCHANGED <<args, env, ret, error, template_list, lab_data, roi_ids_present,
                   roi_ids_req, idx, tpl_data, stats_map, plot_queue, files, writes>>

\* lines 412-424: templates are discovered
StartDiscovered ==
    /\ pc = "start"
    /\ env.labels_exists
    /\ ~loaded_table(env).raised
    /\ discover_templates(env.out_root, args.modalities) # <<>>
    /\ id_to_name' = loaded_table(env).value
    /\ template_list' = discover_templates(env.out_root, args.modalities)
    /\ pc' = "load_labels"
    /\ UNCHANGED <<args, env, ret, error, lab_data, roi_ids_present,
                   roi_ids_req, idx, tpl_data, stats_map, plot_queue, files, writes>>

\* lines 427-428: reading the label volume fails
LoadLabelsReadFail ==
    /\ pc = "load_labels"
    /\ Raise("ReadError")
    /\ UNCHANGED <<args, env, ret, id_to_name, template_list, lab_data, roi_ids_present,
                   roi_ids_req, idx, tpl_data, stats_map, plot_queue, files, writes>>

\* lines 427-432: the label volume is read, then parse_roi_ids raises
LoadLabelsBadRoiIds ==
    /\ pc = "load_labels"
    /\ parse_roi_ids(args.roi_ids).raised
    /\ lab_data' = env.labels.data
    /\ roi_ids_present' = present_ids(env.labels.data)
    /\ Raise("ValueError")
    /\ UNCHANGED <<args, env, ret, id_to_name, template_list,
                   roi_ids_req, idx, tpl_data, stats_map, plot_queue, files, writes>>

\* lines 427-432: the label volume is read and the loop over pairs begins
LoadLabels ==
    /\ pc = "load_labels"
    /\ ~parse_roi_ids(args.roi_ids).raised
    /\ lab_data' = env.labels.data
    /\ roi_ids_present' = present_ids(env.labels.data)
    /\ roi_ids_req' = parse_roi_ids(args.roi_ids).value
    /\ idx' = 1
    /\ pc' = "pair"
    /\ UNCHANGED <<args, env, ret, error, id_to_name, template_list,
                   tpl_data, stats_map, plot_queue, files, writes>>

InLoop == pc = "pair" /\ idx <= Len(template_list)

\* lines 435, 440: reading the pair's value volume fails
PairReadFail ==
    /\ InLoop
    /\ Raise("ReadError")
    /\ UNCHANGED <<args, env, ret, id_to_name, template_list, lab_data, roi_ids_present,
                   roi_ids_req, idx, tpl_data, stats_map, plot_queue, files, writes>>

\* the shape mismatch caught per pair: reported, and the loop goes on
PairShapeMismatchCaught ==
    /\ InLoop
    /\ \E vol \in ValueVolumes : vol.shape # env.labels.shape
    /\ error' = "ValueError"
    /\ idx' = idx + 1
    /\ UNCHANGED <<pc, args, env, ret, id_to_name, template_list, lab_data, roi_ids_present,
                   roi_ids_req, tpl_data, stats_map, plot_queue, files, writes>>

\* the shapes compared after the table is written, not before
PairShapeMismatchLate ==
    /\ InLoop
    /\ \E vol \in ValueVolumes :
          LET pair  == template_list[idx]
              path  == table_path(pair, args.csv)
              stats == compute_stats_fast(lab_data, vol.data, args.include_negative,
                                          ~args.no_minmax)
          IN  /\ vol.shape # env.labels.shape
              /\ tpl_data' = vol.data
              /\ stats_map' = stats
              /\ files' = put(files, path,
                              report_table(pair, roi_ids_present, stats, id_to_name, args))
              /\ writes' = Append(writes, [pair |-> idx, path |-> path])
    /\ Raise("ValueError")
    /\ UNCHANGED <<args, env, ret, id_to_name, template_list, lab_data, roi_ids_present,
                   roi_ids_req, idx, plot_queue>>

\* lines 435-438: the value volume's shape is not the label volume's
PairShapeMismatch ==
    /\ InLoop
    /\ \E vol \in ValueVolumes : vol.shape # env.labels.shape
    /\ Raise("ValueError")
    /\ UNCHANGED <<args, env, ret, id_to_name, template_list, lab_data, roi_ids_present,
                   roi_ids_req, idx, tpl_data, stats_map, plot_queue, files, writes>>

\* stats_map of lines 442-447
pair_stats(vol) ==
    compute_stats_fast(lab_data, vol.data, args.include_negative, ~args.no_minmax)

\* lines 435-489: the table is assembled and writing it fails
PairWriteFail ==
    /\ InLoop
    /\ \E vol \in ValueVolumes :
          /\ vol.shape = env.labels.shape
          /\ tpl_data' = vol.data
          /\ stats_map' = pair_stats(vol)
    /\ Raise("OSError")
    /\ UNCHANGED <<args, env, ret, id_to_name, template_list, lab_data, roi_ids_present,
                   roi_ids_req, idx, plot_queue, files, writes>>

\* the cap applied to roi_ids_present itself, not to a copy of it: the table
\* is written, then the list all pairs share is cut to the first roi_png_max ids
PairTableCapsShared ==
    /\ InLoop
    /\ \E vol \in ValueVolumes :
          LET pair  == template_list[idx]
              path  == table_path(pair, args.csv)
              stats == pair_stats(vol)
          IN  /\ vol.shape = env.labels.shape
              /\ tpl_data' = vol.data
              /\ stats_map' = stats
              /\ files' = put(files, path,
                              report_table(pair, roi_ids_present, stats, id_to_name, args))
              /\ writes' = Append(writes, [pair |-> idx, path |-> path])
    /\ IF args.per_roi_png /\ roi_ids_req.some
       THEN /\ plot_queue' = ids_to_plot(roi_ids_req.val, roi_ids_present, args.roi_png_max)
            /\ roi_ids_present' = IF roi_ids_req.val = <<>>
                                  THEN ids_to_plot(<<>>, roi_ids_present, args.roi_png_max)
                                  ELSE roi_ids_present
            /\ pc' = "plots"
            /\ idx' = idx
       ELSE /\ plot_queue' = <<>>
            /\ roi_ids_present' = roi_ids_present
            /\ pc' = "pair"
            /\ idx' = idx + 1
    /\ UNCHANGED <<args, env, ret, error, id_to_name, template_list, lab_data, roi_ids_req>>

\* lines 435-503: the pair's table is assembled and written; then the plots of
\* the pair begin, or (line 493 false, or line 495) the next pair
PairTable ==
    /\ InLoop
    /\ \E vol \in ValueVolumes :
          LET pair  == template_list[idx]
              path  == table_path(pair, args.csv)
              stats == pair_stats(vol)
          IN  /\ vol.shape = env.labels.shape
              /\ tpl_data' = vol.data
              /\ stats_map' = stats
              /\ files' = put(files, path,
                              report_table(pair, roi_ids_present, stats, id_to_name, args))
              /\ writes' = Append(writes, [pair |-> idx, path |-> path])
    /\ IF args.per_roi_png /\ roi_ids_req.some
       THEN /\ plot_queue' = ids_to_plot(roi_ids_req.val, roi_ids_present, args.roi_png_max)
            /\ pc' = "plots"
            /\ idx' = idx
       ELSE /\ plot_queue' = <<>>
            /\ pc' = "pair"
            /\ idx' = idx + 1
    /\ UNCHANGED <<args, env, ret, error, id_to_name, template_list, lab_data,
                   roi_ids_present, roi_ids_req>>

\* whether the plot loop draws roi_id (lines 506-518)
is_plotted(roi_id) ==
    /\ roi_id # 0
    /\ roi_values(lab_data, tpl_data, roi_id, args.include_negative) # <<>>

\* lines 505-518: the next ROI id is 0 or has no valid voxel, and is skipped
PlotSkip ==
    /\ pc = "plots"
    /\ plot_queue # <<>>
    /\ ~is_plotted(Head(plot_queue))
    /\ plot_queue' = Tail(plot_queue)
    /\ UNCHANGED <<pc, args, env, ret, error, id_to_name, template_list, lab_data,
                   roi_ids_present, roi_ids_req, idx, tpl_data, stats_map, files, writes>>

\* lines 505-540: the next ROI id is plotted and its PNG is written
PlotRoi ==
    /\ pc = "plots"
    /\ plot_queue # <<>>
    /\ is_plotted(Head(plot_queue))
    /\ LET roi_id   == Head(plot_queue)
           pair     == template_list[idx]
           vals     == roi_values(lab_data, tpl_data, roi_id, args.include_negative)
           resolved == label_name_from_id(roi_id, id_to_name, args.lr_offset,
                                          args.right_suffix, args.left_suffix)
           s        == Get(stats_map, roi_id, fallback_stats(vals))
       IN  /\ files' = put(files, png_path(pair, roi_id),
                           [values |-> vals, roi_id |-> roi_id, roi_name |-> resolved[3],
                            hemi |-> resolved[2], stats |-> s])
           /\ writes' = Append(writes, [pair |-> idx, path |-> png_path(pair, roi_id)])
    /\ plot_queue' = Tail(plot_queue)
    /\ UNCHANGED <<pc, args, env, ret, error, id_to_name, template_list, lab_data,
                   roi_ids_present, roi_ids_req, idx, tpl_data, stats_map>>

\* lines 531-540, 361-363: writing the PNG of the next ROI id fails
PlotFail ==
    /\ pc = "plots"
    /\ plot_queue # <<>>
    /\ is_plotted(Head(plot_queue))
    /\ Raise("OSError")
    /\ UNCHANGED <<args, env, ret, id_to_name, template_list, lab_data, roi_ids_present,
                   roi_ids_req, idx, tpl_data, stats_map, plot_queue, files, writes>>

\* line 542: the plots of the pair are done, the next pair follows
PlotsDone ==
    /\ pc = "plots"
    /\ plot_queue = <<>>
    /\ idx' = idx + 1
    /\ pc' = "pair"
    /\ UNCHANGED <<args, env, ret, error, id_to_name, template_list, lab_data,
                   roi_ids_present, roi_ids_req, tpl_data, stats_map, plot_queue,
                   files, writes>>

\* the loop over template_list is exhausted, main returns
Return ==
    /\ pc = "pair"
    /\ idx > Len(template_list)
    /\ pc' = "done"
    /\ UNCHANGED <<args, env, ret, error, id_to_name, template_list, lab_data,
                   roi_ids_present, roi_ids_req, idx, tpl_data, stats_map, plot_queue,
                   files, writes>>

Next ==
    \/ StartLabelsMissing
    \/ StartBadTable
    \/ StartNoTemplates
    \/ StartDiscovered
    \/ LoadLabelsReadFail
    \/ LoadLabelsBadRoiIds
    \/ LoadLabels
    \/ PairReadFail
    \/ PairShapeMismatch
    \/ PairWriteFail
    \/ PairTable
    \/ PlotSkip
    \/ PlotRoi
    \/ PlotFail
    \/ PlotsDone
    \/ Return

Spec == Init /\ [][Next]_vars

---------------------------------------------------------------------------
(* What the claims about compute_stats_fast are stated against: the voxels *)
(* of one id that survive the validity test, found by filtering.           *)

\* the validity test of one voxel value
Survives(v, include_negative) == v.kind = "fin" /\ (include_negative \/ v.num >= 0)

\* the positions of the voxels labelled id whose value survives
SurvivingVoxels(labels, values, id, include_negative) ==
    {i \in 1..Len(labels) : labels[i] = id /\ Survives(values[i], include_negative)}

\* the sum of values over a set of positions
RECURSIVE SumAt(_, _)
SumAt(values, positions) ==
    IF positions = {} THEN F(0, 1)
    ELSE LET i == CHOOSE j \in positions : TRUE
         IN  FAdd(values[i], SumAt(values, positions \ {i}))

CallSurvivors(id) ==
    SurvivingVoxels(args.label_data, args.value_data, id, args.include_negative)

\* C1: the mapping compute_stats_fast returns never has key 0 (background) and
\* never has a key with no surviving voxel.
C1_NoBackgroundNoEmptyKey ==
    pc = "return" =>
        /\ 0 \notin DOMAIN ret
        /\ \A id \in DOMAIN ret : CallSurvivors(id) # {}

\* C2: n_voxels of every id of the result is the number of voxels of that id
\* whose value is finite and (include_negative or >= 0); an id all of whose
\* voxels fail the test is absent; the result is empty when no voxel passes.
C2_CountsValidVoxels ==
    pc = "return" =>
        /\ \A id \in DOMAIN ret : ret[id].n_voxels = Cardinality(CallSurvivors(id))
        /\ \A id \in Range(args.label_data) : CallSurvivors(id) = {} => id \notin DOMAIN ret
        /\ (\A i \in 1..Len(args.value_data) :
                ~Survives(args.value_data[i], args.include_negative)) => ret = EmptyMap

\* a call that returned a record for one id, dropped another id whose voxels all
\* fail the test, and left a failing voxel of the kept id out of its count
C2_Witness ==
    /\ pc = "return"
    /\ \E kept \in DOMAIN ret, dropped \in Range(args.label_data) :
          /\ dropped \notin DOMAIN ret
          /\ ret[kept].n_voxels < Cardinality({i \in 1..Len(args.label_data) :
                                                  args.label_data[i] = kept})

\* C3: mean of every id of the result is the sum of that id's valid voxel values
\* over their number: the accumulation indexed by label value agrees with
\* filtering per id, and voxels of other ids do not contribute.
C3_MeanIsPerIdSum ==
    pc = "return" =>
        \A id \in DOMAIN ret :
            ret[id].mean = FDivCount(SumAt(args.value_data, CallSurvivors(id)),
                                     Cardinality(CallSurvivors(id)))

\* a call that returned two ids with different means, one of them over two voxels
C3_Witness ==
    /\ pc = "return"
    /\ \E a \in DOMAIN ret, b \in DOMAIN ret :
          /\ ret[a].mean # ret[b].mean
          /\ ret[a].n_voxels >= 2

---------------------------------------------------------------------------
(* label_name_from_id *)

\* the table entry of b, or "ID_<b>"
NameOf(table, b) == IF b \in DOMAIN table THEN table[b] ELSE "ID_" \o ToString(b)

\* C4: label_name_from_id is total and follows the rule: 0 is background; with
\* lr_offset > 0 and roi_id >= lr_offset the id is left, base roi_id - lr_offset;
\* otherwise it is right, base roi_id; the name is the table entry or "ID_<b>".
C4_LabelNameRule ==
    pc = "return" =>
        ret = CASE args.roi_id = 0 -> <<0, "", "Background">>
                [] args.roi_id # 0 /\ args.lr_offset > 0 /\ args.roi_id >= args.lr_offset ->
                      <<args.roi_id - args.lr_offset, "L",
                        NameOf(args.table, args.roi_id - args.lr_offset) \o args.left_suffix>>
                [] OTHER ->
                      <<args.roi_id, "R", NameOf(args.table, args.roi_id) \o args.right_suffix>>

\* a call with roi_id = lr_offset that resolved to the left side with a
\* synthesized name
C4_Witness ==
    /\ pc = "return"
    /\ args.roi_id = args.lr_offset
    /\ ret[2] = "L"
    /\ ret[1] \notin DOMAIN args.table

---------------------------------------------------------------------------
(* The report table *)

IsTable(path) == path.kind = "table"

\* the ROI_id column of a table
IdColumn(rows) == [k \in 1..Len(rows) |-> rows[k].ROI_id.num]

\* C5: every table written holds exactly one row per distinct non-zero id of the
\* label volume, in ascending order of ROI_id, also for ids absent from the
\* statistics map, and no row with ROI_id 0.
C5_OneRowPerIdAscending ==
    \A path \in DOMAIN files :
        IsTable(path) =>
            LET ids == IdColumn(files[path])
            IN  /\ \A j, k \in DOMAIN ids : j < k => ids[j] < ids[k]
                /\ Range(ids) = Range(env.labels.data) \ {0}

\* a table over a label volume whose ids are out of order, with a row for an id
\* that has no statistics
C5_Witness ==
    \E path \in DOMAIN files :
        /\ IsTable(path)
        /\ Len(files[path]) >= 2
        /\ \E k \in DOMAIN files[path] : files[path][k].n_voxels = I(0)
        /\ \E i, j \in DOMAIN env.labels.data :
              i < j /\ env.labels.data[i] > env.labels.data[j] /\ env.labels.data[j] > 0

\* the states in which stats_map and tpl_data are those of the last table written
TableFresh == pc \in {"pair", "plots", "done"} /\ writes # <<>>

LastTable ==
    LET j == CHOOSE k \in DOMAIN writes :
                /\ IsTable(writes[k].path)
                /\ \A l \in DOMAIN writes : IsTable(writes[l].path) => l <= k
    IN  files[writes[j].path]

\* id has no voxel of the current value volume that survives the validity test
ZeroQualifying(id) == SurvivingVoxels(lab_data, tpl_data, id, args.include_negative) = {}

\* C6 as claimed: the row of an id with zero qualifying voxels has the
\* not-available sentinel in every statistics field, n_voxels included.
C6_AllFieldsNotAvailable ==
    TableFresh =>
        \A k \in DOMAIN LastTable :
            ZeroQualifying(LastTable[k].ROI_id.num) =>
                \A c \in StatColumns : LastTable[k][c] = NaN

\* C6 as amended: the row of an id with zero qualifying voxels has n_voxels 0
\* and the not-available sentinel in every other statistics field.
C6_NotAvailableExceptCount ==
    TableFresh =>
        \A k \in DOMAIN LastTable :
            ZeroQualifying(LastTable[k].ROI_id.num) =>
                /\ LastTable[k].n_voxels = I(0)
                /\ \A c \in StatColumns \ {"n_voxels"} : LastTable[k][c] = NaN

\* a table with a row for an id with zero qualifying voxels beside a row for an
\* id with statistics
C6_Witness ==
    /\ TableFresh
    /\ \E j, k \in DOMAIN LastTable :
          /\ ZeroQualifying(LastTable[j].ROI_id.num)
          /\ ~ZeroQualifying(LastTable[k].ROI_id.num)
          /\ LastTable[k].mean # NaN

---------------------------------------------------------------------------
(* Failures *)

\* pair j of template_list had its table written
TableWritten(j) == \E k \in DOMAIN writes : writes[k].pair = j /\ IsTable(writes[k].path)

\* C7 as claimed: a failure while processing one pair aborts only that pair;
\* when the run has ended, every other pair has been processed and its table
\* written.
C7_FailureAbortsOnlyThatPair ==
    (pc \in {"done", "raised"} /\ idx >= 1) =>
        \A j \in 1..Len(template_list) : (pc = "done" \/ j # idx) => TableWritten(j)

\* C7 as amended: a failure is not caught; it ends the run with the exception,
\* no pair after the failing one is processed or written, and the tables of
\* the pairs before it remain written.
C7_FailureEndsRun ==
    error # "" =>
        /\ pc = "raised"
        /\ ~ENABLED Next
        /\ \A k \in DOMAIN writes : writes[k].pair <= idx
        /\ \A j \in 1..Len(template_list) : (j > idx => ~TableWritten(j)) /\ (j < idx => TableWritten(j))

\* the first of two pairs failed on its shape: nothing was written, the second
\* pair was never processed
C7_Witness ==
    /\ pc = "raised"
    /\ error = "ValueError"
    /\ idx = 1
    /\ Len(template_list) = 2
    /\ writes = <<>>

\* C8 as claimed: when the label volume or the label table is not found, the run
\* fails with a configuration error before any pair is processed or written.
C8_MissingResourceIsFatal ==
    ((~env.labels_exists \/ ~env.table.some) /\ pc # "start") =>
        /\ pc = "raised"
        /\ error = "FileNotFoundError"
        /\ idx = 0
        /\ writes = <<>>

\* C8 as amended: a missing label volume is fatal before discovery, before any
\* pair and before any write; a missing label table is not an error, the run
\* goes on with an empty table.
C8_MissingLabelVolumeIsFatal ==
    /\ (~env.labels_exists /\ pc # "start") =>
          /\ pc = "raised"
          /\ error = "FileNotFoundError"
          /\ template_list = <<>>
          /\ idx = 0
          /\ writes = <<>>
          /\ files = EmptyMap
    /\ (env.labels_exists /\ ~env.table.some) =>
          /\ error # "FileNotFoundError"
          /\ id_to_name = EmptyMap

\* the run ended on the missing label volume although templates were there to
\* be discovered
C8_Witness ==
    /\ pc = "raised"
    /\ ~env.labels_exists
    /\ discover_templates(env.out_root, args.modalities) # <<>>

\* C9: when discovery returns no template, the run ends normally, without an
\* error and without any output.
C9_DiscoveryMissIsNoError ==
    (/\ pc # "start"
     /\ env.labels_exists
     /\ ~loaded_table(env).raised
     /\ discover_templates(env.out_root, args.modalities) = <<>>) =>
        /\ pc = "done"
        /\ error = ""
        /\ files = EmptyMap
        /\ writes = <<>>

\* the run returned on a discovery miss in a tree that holds templates of
\* another modality
C9_Witness ==
    /\ pc = "done"
    /\ template_list = <<>>
    /\ env.out_root # EmptyMap
    /\ files = EmptyMap

---------------------------------------------------------------------------
(* discover_templates *)

\* a sorts before b: a is a proper prefix of b, or a has the smaller character
\* at the first position where they differ
LexLess(a, b) ==
    \E i \in 1..Len(b) :
        /\ \A j \in 1..(i - 1) : j <= Len(a) /\ a[j] = b[j]
        /\ (i = Len(a) + 1 \/ (i <= Len(a) /\ Ord[a[i]] < Ord[b[i]]))

\* the names ending in "_template.nii.gz"
GlobHits(names) ==
    {f \in names :
        /\ Len(f) >= Len(TemplateSuffix)
        /\ \A i \in 1..Len(TemplateSuffix) :
              f[Len(f) - Len(TemplateSuffix) + i] = TemplateSuffix[i]}

\* the template directories a call looks into, as <<modality, group>>: a
\* requested modality, a group directory with a template subdirectory
TemplateDirs(tree, modalities) ==
    {d \in Range(modalities) \X {GroupA, GroupB} :
        /\ d[1] \in DOMAIN tree
        /\ d[2] \in DOMAIN tree[d[1]]
        /\ tree[d[1]][d[2]].is_dir
        /\ tree[d[1]][d[2]].has_template}

\* the file the claim selects in directory d (none, or one): the canonical
\* one, else the lexicographically first glob match
Selected(tree, d) ==
    LET names == tree[d[1]][d[2]].names
        canon == d[2] \o <<"_">> \o d[1] \o TemplateSuffix
    IN  IF canon \in names THEN {canon}
        ELSE {f \in GlobHits(names) : \A g \in GlobHits(names) : f = g \/ LexLess(f, g)}

ExpectedEntries(tree, modalities) ==
    LET dirs == TemplateDirs(tree, modalities)
        all  == UNION {tree[d[1]][d[2]].names : d \in dirs}
    IN  { [group |-> q[1][2], modality |-> q[1][1], name |-> q[2]] :
            q \in {r \in dirs \X all : r[2] \in Selected(tree, r[1])} }

\* C10: for each requested modality and each group directory with a template
\* subdirectory, discover_templates returns the canonical file when it exists,
\* otherwise the lexicographically first file matching *_template.nii.gz, and
\* no entry when there is none; never a wildcard match beside a canonical file.
\* A (group, modality) has two entries only if the modality is requested twice.
C10_CanonicalThenFirstMatch ==
    pc = "return" =>
        /\ Range(ret) = ExpectedEntries(args.out_root, args.modalities)
        /\ \A j, k \in DOMAIN ret :
              (j # k /\ ret[j].group = ret[k].group /\ ret[j].modality = ret[k].modality)
                  => \E x, y \in DOMAIN args.modalities :
                        x # y /\ args.modalities[x] = args.modalities[y]

\* a call that returned the canonical file of a directory that also holds a
\* wildcard match sorting before it, and the first of two wildcard matches of a
\* directory without canonical file
C10_Witness ==
    /\ pc = "return"
    /\ \E k \in DOMAIN ret :
          /\ ret[k].name = expected_name(ret[k].group, ret[k].modality)
          /\ (<<"0">> \o TemplateSuffix) \in args.out_root[ret[k].modality][ret[k].group].names
    /\ \E k \in DOMAIN ret :
          /\ ret[k].name = <<"0">> \o TemplateSuffix
          /\ (<<"a">> \o TemplateSuffix) \in args.out_root[ret[k].modality][ret[k].group].names

---------------------------------------------------------------------------
(* Writes of one run *)

\* the writes of table files, as positions in writes
TableWrites == {k \in DOMAIN writes : IsTable(writes[k].path)}

\* C11: in any run, whatever the modality list, no table file is written twice:
\* discovery yields each (group, modality) at most once, and no later iteration
\* of main's loop writes to the output path of an earlier one.
C11_TableWrittenOnce ==
    /\ \A j, k \in TableWrites : writes[j].path = writes[k].path => j = k
    /\ \A j, k \in DOMAIN template_list :
          (template_list[j].group = template_list[k].group
              /\ template_list[j].modality = template_list[k].modality) => j = k

---------------------------------------------------------------------------
(* Order statistics of one call of compute_stats_fast.  The calls are on    *)
(* volumes of at most MaxVox voxels of two regions, with four distinct      *)
(* finite values (so that the quantiles of three values interpolate between *)
(* different neighbours) and NaN.                                           *)

QuantileIds == {1, 3}

QuantileValues == {NaN, F(-1, 1), F(0, 1), F(2, 1), F(5, 1)}

QuantileArgs ==
    UNION {[label_data : [1..n -> QuantileIds], value_data : [1..n -> QuantileValues],
            include_negative : BOOLEAN, compute_minmax : BOOLEAN] : n \in 0..MaxVox}

InitQuantiles ==
    /\ pc = "call"
    /\ args \in QuantileArgs
    /\ ret = EmptyMap
    /\ MainIdle

SpecQuantiles == InitQuantiles /\ [][NextStats]_vars


\* how many valid voxels of id have a value <= x, and how many a value >= x
CountAtMost(id, x) ==
    Cardinality({i \in CallSurvivors(id) : FLe(args.value_data[i], x)})

CountAtLeast(id, x) ==
    Cardinality({i \in CallSurvivors(id) : FLe(x, args.value_data[i])})

\* x lies where the linear-interpolation quantile of level q of id's valid
\* values lies: between the values of ranks floor((n-1)q) and floor((n-1)q)+1
IsQuantileOf(id, x, q) ==
    LET n  == Cardinality(CallSurvivors(id))
        lo == FFloor(FMul(F(n - 1, 1), q))
    IN  /\ CountAtMost(id, x) >= lo + 1
        /\ CountAtLeast(id, x) >= n - Min(lo + 1, n - 1)

\* x is the smallest (largest) valid value of id
IsMinOf(id, x) == CountAtMost(id, x) >= 1 /\ CountAtLeast(id, x) = Cardinality(CallSurvivors(id))
IsMaxOf(id, x) == CountAtLeast(id, x) >= 1 /\ CountAtMost(id, x) = Cardinality(CallSurvivors(id))

\* C12: in every record compute_stats_fast returns, q1 <= median <= q3 and
\* iqr = q3 - q1 >= 0; p05 <= q1 and q3 <= p95; with compute_minmax,
\* min <= p05 and p95 <= max; the quantiles lie at the ranks of the
\* linear-interpolation quantiles of the id's valid voxel values, and min and
\* max are the smallest and the largest of those values.
C12_QuantilesOrdered ==
    pc = "return" =>
        \A id \in DOMAIN ret :
            LET r == ret[id]
            IN  /\ FLe(r.p05, r.q1) /\ FLe(r.q1, r.median)
                /\ FLe(r.median, r.q3) /\ FLe(r.q3, r.p95)
                /\ r.iqr = FSub(r.q3, r.q1)
                /\ FLe(F(0, 1), r.iqr)
                /\ IsQuantileOf(id, r.p05, qs[1]) /\ IsQuantileOf(id, r.q1, qs[2])
                /\ IsQuantileOf(id, r.median, qs[3]) /\ IsQuantileOf(id, r.q3, qs[4])
                /\ IsQuantileOf(id, r.p95, qs[5])
                /\ args.compute_minmax =>
                      /\ FLe(r.min, r.p05) /\ FLe(r.p95, r.max)
                      /\ IsMinOf(id, r.min) /\ IsMaxOf(id, r.max)

\* a call with min/max on an id whose valid values come in descending order in
\* the volume, with quantiles strictly between them
C12_Witness ==
    /\ pc = "return"
    /\ args.compute_minmax
    /\ \E id \in DOMAIN ret :
          /\ ret[id].n_voxels >= 2
          /\ ret[id].min # ret[id].p05 /\ ret[id].q1 # ret[id].median
          /\ ret[id].iqr # F(0, 1)
          /\ \E i, j \in CallSurvivors(id) :
                i < j /\ ~FLe(args.value_data[i], args.value_data[j])

---------------------------------------------------------------------------
(* What the pairs share *)

\* the last write of a table file, as a position in writes
LastTableWrite == CHOOSE k \in TableWrites : \A l \in TableWrites : l <= k

\* the table of pair j over value volume data, from the inputs of the run alone
TableFromInputs(j, data) ==
    report_table(template_list[j], present_ids(env.labels.data),
                 compute_stats_fast(env.labels.data, data, args.include_negative,
                                    ~args.no_minmax),
                 loaded_table(env).value, args)

\* a step of the loop over pairs leaves what the pairs share as it was
LoopStepKeepsShared ==
    pc \in {"pair", "plots"} =>
        UNCHANGED <<id_to_name, lab_data, roi_ids_present, roi_ids_req, args, env>>

\* C14: no step of the loop over pairs changes the label table, the label
\* volume data, the list of ROI ids present or the requested plot-id list (nor
\* the arguments and the inputs of the run), with or without plots and cap; and
\* the table written last is the table of its pair's value volume and the
\* inputs of the run, whichever pairs were processed before.
C14_PairsShareReadOnlyInputs ==
    /\ [][LoopStepKeepsShared]_vars
    /\ []((TableFresh /\ TableWrites # {}) =>
            files[writes[LastTableWrite].path]
                = TableFromInputs(writes[LastTableWrite].pair, tpl_data))

\* the table of a second pair was written after the first pair drew capped
\* plots of all ids of a label volume with more ids than the cap
C14_Witness ==
    /\ pc \in {"pair", "plots", "done"}
    /\ TableWrites # {}
    /\ writes[LastTableWrite].pair = 2
    /\ roi_ids_req = Some(<<>>)
    /\ args.roi_png_max > 0
    /\ Len(roi_ids_present) > args.roi_png_max
    /\ \E k \in DOMAIN writes : writes[k].pair = 1 /\ ~IsTable(writes[k].path)

---------------------------------------------------------------------------
(* Outputs of a pair that failed *)

\* the writes of pair j, as positions in writes
WritesOf(j) == {k \in DOMAIN writes : writes[k].pair = j}

\* the run ended while pair idx was being processed
PairFailed == pc = "raised" /\ idx >= 1

\* the run ended in the plot loop of pair idx
PlotFailed == PairFailed /\ error = "OSError" /\ plot_queue # <<>>

\* C15 as claimed: a pair completes or fails atomically; when processing of a
\* pair failed at any step (shape check, volume load, table write, plot
\* generation), no output of that pair, table or PNG, has been written.
C15_PairFailsAtomically ==
    PairFailed => WritesOf(idx) = {}

\* C15 as amended: when a pair failed at the shape check or at the load of its
\* value volume, no output of that pair has been written; when it failed during
\* plot generation, its table, written before the plots, is in place and
\* complete, with the PNGs drawn before the failure.
C15_FailureKeepsEarlierOutputs ==
    /\ (PairFailed /\ error \in {"ValueError", "ReadError"}) => WritesOf(idx) = {}
    /\ PlotFailed =>
          /\ \E k \in WritesOf(idx) :
                /\ IsTable(writes[k].path)
                /\ files[writes[k].path] = TableFromInputs(idx, tpl_data)
                /\ \A l \in WritesOf(idx) : l # k => (l > k /\ ~IsTable(writes[l].path))
          /\ \A l \in WritesOf(idx) : writes[l].path \in DOMAIN files

\* the plot of the second ROI of a pair failed: the table of the pair and the
\* PNG of its first ROI are written
C15_Witness ==
    /\ PlotFailed
    /\ \E k, l \in WritesOf(idx) : IsTable(writes[k].path) /\ ~IsTable(writes[l].path)

---------------------------------------------------------------------------
(* parse_roi_ids *)

\* arg is empty or spaces only
IsBlank(arg) == \A i \in DOMAIN arg : arg[i] = " "

\* arg without the spaces around it
Trimmed(arg) ==
    IF IsBlank(arg) THEN <<>>
    ELSE LET first == CHOOSE i \in DOMAIN arg : arg[i] # " " /\ \A j \in 1..(i - 1) : arg[j] = " "
             last  == CHOOSE i \in DOMAIN arg : arg[i] # " " /\ \A j \in (i + 1)..Len(arg) : arg[j] = " "
         IN  SubSeq(arg, first, last)

\* arg is the word "all" in any case, spaces around it allowed
IsAllWord(arg) ==
    /\ Len(Trimmed(arg)) = 3
    /\ Trimmed(arg)[1] \in {"a", "A"}
    /\ Trimmed(arg)[2] \in {"l", "L"}
    /\ Trimmed(arg)[3] \in {"l", "L"}

\* arg is one-digit integers separated by single commas: "3", "1,3", ...
IsDigitList(arg) ==
    /\ Len(arg) % 2 = 1
    /\ \A i \in DOMAIN arg : IF i % 2 = 1 THEN arg[i] \in Digits ELSE arg[i] = ","

DigitListValue(arg) == [k \in 1..((Len(arg) + 1) \div 2) |-> DigitVal(arg[2 * k - 1])]

\* C16: parse_roi_ids gives None for the empty or whitespace-only string, the
\* empty list (the marker of 'all present ids') for "all" in any case, the
\* integers in input order for a comma-separated list, and the empty list for
\* no input other than "all".
C16_ParseRoiIdsAsDocumented ==
    pc = "return" =>
        /\ IsBlank(args.arg) => ret = [raised |-> FALSE, value |-> None]
        /\ IsAllWord(args.arg) => ret = [raised |-> FALSE, value |-> Some(<<>>)]
        /\ IsDigitList(args.arg) =>
              ret = [raised |-> FALSE, value |-> Some(DigitListValue(args.arg))]
        /\ (~ret.raised /\ ret.value = Some(<<>>)) => IsAllWord(args.arg)

---------------------------------------------------------------------------
(* Per-ROI plots *)

\* the writes of PNG files of pair j, as positions in writes
PngWritesOf(j) == {k \in WritesOf(j) : ~IsTable(writes[k].path)}

\* roi_id has a voxel of the current value volume that passes the validity test
HasValidVoxel(roi_id) ==
    SurvivingVoxels(env.labels.data, tpl_data, roi_id, args.include_negative) # {}

\* C17: a PNG is written only when per-ROI plots are enabled and ROI ids were
\* requested; with roi_png_max > 0 at most roi_png_max PNGs are written for a
\* pair; no PNG is written for ROI id 0 or for an ROI without valid voxel in
\* the pair's value volume; the table of a pair is written before its plots
\* and is the same after them.
C17_PlotsOnlyAsRequested ==
    /\ \A j \in DOMAIN template_list : \A k \in PngWritesOf(j) :
          /\ args.per_roi_png
          /\ ~IsBlank(args.roi_ids)
          /\ writes[k].path.roi_id # 0
          /\ writes[k].path.group = template_list[j].group
          /\ writes[k].path.modality = template_list[j].modality
          /\ files[writes[k].path].values # <<>>
          /\ (TableFresh /\ j = writes[LastTableWrite].pair) => HasValidVoxel(writes[k].path.roi_id)
          /\ \E t \in WritesOf(j) : IsTable(writes[t].path) /\ t < k
    /\ \A j \in DOMAIN template_list :
          args.roi_png_max > 0 => Cardinality(PngWritesOf(j)) <= args.roi_png_max
    /\ pc = "plots" =>
          files[table_path(template_list[idx], args.csv)] = TableFromInputs(idx, tpl_data)

\* a pair whose plots are done: of the request 0,1,3 capped at two, id 0 was
\* skipped, the PNG of id 1 was written, and id 3, cut by the cap, has valid
\* voxels
C17_Witness ==
    /\ pc \in {"pair", "done"}
    /\ roi_ids_req = Some(<<0, 1, 3>>)
    /\ args.roi_png_max = 2
    /\ TableWrites # {}
    /\ HasValidVoxel(3)
    /\ \E k \in PngWritesOf(writes[LastTableWrite].pair) : writes[k].path.roi_id = 1

---------------------------------------------------------------------------
(* The background base id *)

\* C18: base id 0 is reserved for the background: every row of every table
\* written (one row per non-zero ROI id of the label volume, for any lr_offset,
\* roi_id = lr_offset included) has ROI_base_id # 0 and hemisphere "L" or "R".
C18_BaseIdZeroReserved ==
    \A path \in DOMAIN files :
        IsTable(path) =>
            \A k \in DOMAIN files[path] :
                /\ files[path][k].ROI_id # I(0)
                /\ files[path][k].ROI_base_id # I(0)
                /\ files[path][k].Hemisphere \in {"L", "R"}

====
